---- MODULE Spec2Model ----
(***************************************************************************)
(* Model of src/main.py: the text normalizer clean_ocr_text and the        *)
(* POST /process-images handler process_images.                            *)
(*                                                                         *)
(* Python str values are TLA+ strings; s[i:j] is SubSeq, + is \o, len is   *)
(* Len.  The grave accent U+0060 cannot be written inside a TLA+ string,   *)
(* so the character "^" stands for it (BT below); "^" is used for nothing  *)
(* else in the model.                                                      *)
(***************************************************************************)
EXTENDS Integers, Sequences, FiniteSets, TLC

VARIABLES
    \* ---- process_images: the request and the handler's locals
    files,          \* the uploaded files, each [filename, content_type]
    pc,             \* position of the handler in its code
    idx,            \* 1-based position of `file` in `for file in files`
    all_text,       \* local all_text
    bill_counter,   \* local bill_counter
    pages,          \* len(images) of the PDF being processed
    page,           \* 1-based position in `for i, image in enumerate(images)`
    cleaned_text,   \* local cleaned_text, as substituted into the prompt
    result,         \* what the request ended with: the response or the HTTPException
    \* ---- process_images: what the request did to its collaborators
    ocr_calls,      \* calls of pytesseract.image_to_string
    pdf_calls,      \* calls of convert_from_bytes
    open_calls,     \* calls of Image.open
    model_calls,    \* calls of model.generate_content
    attempts,       \* the files (by position) whose try block was entered, in order
    extracted,      \* the files (by position) whose try block ran to its end, in order
    raised_at,      \* position of the file whose extraction raised, 0 if none
    all_blank,      \* every extracted text appended to all_text so far is blank
    failed,         \* some step of the request has failed
    responses,      \* the response.text values the generative model returned, in order
    \* ---- clean_ocr_text applied on its own
    text,           \* the argument
    cleaned,        \* clean_ocr_text(text)
    recleaned,      \* clean_ocr_text(clean_ocr_text(text))
    cpc

hvars == <<files, pc, idx, all_text, bill_counter, pages, page, cleaned_text, result,
           ocr_calls, pdf_calls, open_calls, model_calls, attempts, extracted,
           raised_at, all_blank, failed, responses>>
cvars == <<text, cleaned, recleaned, cpc>>
vars == <<hvars, cvars>>

-----------------------------------------------------------------------------
(* Bounds of the model.                                                    *)

MaxFiles == 2       \* longest file list of a request
MaxPages == 1       \* most pages convert_from_bytes returns for one PDF
MaxLen == 6         \* longest generated argument of clean_ocr_text

-----------------------------------------------------------------------------
(* Strings.                                                                *)

Char(s, i) == SubSeq(s, i, i)

Min(a, b) == IF a < b THEN a ELSE b

\* s[:n]
Prefix(s, n) == SubSeq(s, 1, Min(n, Len(s)))

\* s.startswith(p), s.endswith(p)
StartsWith(s, p) == Len(s) >= Len(p) /\ SubSeq(s, 1, Len(p)) = p
EndsWith(s, p) == Len(s) >= Len(p) /\ SubSeq(s, Len(s) - Len(p) + 1, Len(s)) = p

\* c * n
RECURSIVE Rep(_, _)
Rep(c, n) == IF n = 0 THEN "" ELSE c \o Rep(c, n - 1)

\* The ASCII characters str.strip() removes and the regex class \s matches.
Whitespace == {" ", "\t", "\n", "\r", "\f"}
\* The regex class [ \t].
Horizontal == {" ", "\t"}

\* The least i in p..Len(s) with Char(s, i) in (or, when `inside` is FALSE, not in)
\* the class cls; Len(s) + 1 when there is none.
Scan(s, p, cls, inside) ==
    CHOOSE i \in p..(Len(s) + 1) :
        /\ i = Len(s) + 1 \/ ((Char(s, i) \in cls) = inside)
        /\ \A j \in p..(i - 1) : (Char(s, j) \in cls) # inside

\* The number of characters of the class cls that s ends with.
Trailing(s, cls) ==
    CHOOSE k \in 0..Len(s) :
        /\ k = Len(s) \/ Char(s, Len(s) - k) \notin cls
        /\ \A j \in 1..k : Char(s, Len(s) - j + 1) \in cls

\* s.strip()
Strip(s) ==
    LET a == Scan(s, 1, Whitespace, FALSE)
    IN  IF a > Len(s) THEN "" ELSE SubSeq(s, a, Len(s) - Trailing(s, Whitespace))

\* The positions of s that hold a character of the class cls.
Positions(s, cls) == {i \in 1..Len(s) : Char(s, i) \in cls}

\* The least member of the set of positions P that is at least p; 0 when none.
NextIn(P, p) ==
    LET M == {i \in P : i >= p}
    IN  IF M = {} THEN 0 ELSE CHOOSE i \in M : \A j \in M : i <= j

\* The start of the leftmost occurrence of old in s at or after p; 0 when none.
Find(s, old, p) ==
    LET M == {i \in p..(Len(s) - Len(old) + 1) : SubSeq(s, i, i + Len(old) - 1) = old}
    IN  IF M = {} THEN 0 ELSE CHOOSE i \in M : \A j \in M : i <= j

\* s.replace(old, new) for a non-empty old: the non-overlapping occurrences, left to right.
RECURSIVE ReplaceFrom(_, _, _, _)
ReplaceFrom(s, old, new, p) ==
    LET i == Find(s, old, p)
    IN  IF i = 0 THEN SubSeq(s, p, Len(s))
        ELSE SubSeq(s, p, i - 1) \o new \o ReplaceFrom(s, old, new, i + Len(old))

Replace(s, old, new) == ReplaceFrom(s, old, new, 1)

-----------------------------------------------------------------------------
(* clean_ocr_text                                                          *)

\* The dict `replacements`, in insertion order.
Replacements == <<
    <<"Lable", "Label">>,
    <<"Chola", "Chola">>,
    <<"+|bCAmt:+/2¢", "SubTotal:">>,
    <<"Phn:", "Phone:">>,
    <<"Qty:", "Quantity:">>,
    <<"Amt:", "Amount:">>,
    <<"Cewkehy", "Company">>,
    <<"Srey", "Store">> >>

\* for old, new in replacements.items(): text = text.replace(old, new)
RECURSIVE ApplyReplacements(_, _)
ApplyReplacements(s, k) ==
    IF k > Len(Replacements) THEN s
    ELSE ApplyReplacements(Replace(s, Replacements[k][1], Replacements[k][2]), k + 1)

\* re.sub(r'[ \t]+', ' ', text): every maximal run of spaces and tabs becomes one space.
\* (hs: the positions of s that hold a space or a tab)
RECURSIVE CollapseSpacesFrom(_, _, _)
CollapseSpacesFrom(s, p, hs) ==
    LET i == NextIn(hs, p)
    IN  IF i = 0 THEN SubSeq(s, p, Len(s))
        ELSE SubSeq(s, p, i - 1) \o " "
                 \o CollapseSpacesFrom(s, Scan(s, i, Horizontal, FALSE), hs)

CollapseSpaces(s) == CollapseSpacesFrom(s, 1, Positions(s, Horizontal))

\* re.sub(r'\n{3}', '\n\n', text): what the substitution would be without the \s*.
RECURSIVE CollapseExactFrom(_, _)
CollapseExactFrom(s, p) ==
    LET i == Find(s, "\n\n\n", p)
    IN  IF i = 0 THEN SubSeq(s, p, Len(s))
        ELSE SubSeq(s, p, i - 1) \o "\n\n" \o CollapseExactFrom(s, i + 3)

CollapseNewlinesExact(s) == CollapseExactFrom(s, 1)

\* re.sub(r'\n\s*\n\s*\n', '\n\n', text).  A match starts at a newline i and stays
\* inside the whitespace run that i begins; both \s* are greedy, so when the run
\* holds three newlines or more the match ends at the last of them, and when it
\* holds fewer no position of the run starts a match.
\* (nls: the positions of s that hold a newline)
RECURSIVE CollapseNewlinesFrom(_, _, _)
CollapseNewlinesFrom(s, p, nls) ==
    LET i == NextIn(nls, p)
        e == Scan(s, i, Whitespace, FALSE)
        nl == {j \in nls : i <= j /\ j < e}
        last == CHOOSE j \in nl : \A k \in nl : k <= j
    IN  IF i = 0 THEN SubSeq(s, p, Len(s))
        ELSE IF Cardinality(nl) >= 3
             THEN SubSeq(s, p, i - 1) \o "\n\n" \o CollapseNewlinesFrom(s, last + 1, nls)
             ELSE SubSeq(s, p, e - 1) \o CollapseNewlinesFrom(s, e, nls)

CollapseNewlines(s) == CollapseNewlinesFrom(s, 1, Positions(s, {"\n"}))

\* re.sub(r'(\d+)\.(\d+)', r'\1.\2', text): every match is replaced by itself.
NumberSpacing(s) == s

clean_ocr_text(s) ==
    IF s = "" THEN s
    ELSE Strip(NumberSpacing(CollapseNewlines(CollapseSpaces(ApplyReplacements(s, 1)))))

-----------------------------------------------------------------------------
(* json.loads, for the JSON texts of the model: arrays, objects, strings   *)
(* without escape sequences, numbers without exponent, null, true, false.  *)
(* No modelled response holds a backslash, an exponent, NaN or Infinity.   *)

JsonWhitespace == {" ", "\t", "\n", "\r"}
Digit == {"0", "1", "2", "3", "4", "5", "6", "7", "8", "9"}
\* Characters a JSON string may not hold unescaped.
StringStop == {"\"", "\\", "\n", "\t", "\r", "\f"}

SkipWs(s, p) == Scan(s, p, JsonWhitespace, FALSE)
At(s, p, lit) == p + Len(lit) - 1 <= Len(s) /\ SubSeq(s, p, p + Len(lit) - 1) = lit

NoValue == [ok |-> FALSE, next |-> 0, kind |-> "invalid"]
Value(k, n) == [ok |-> TRUE, next |-> n, kind |-> k]

\* py_scanstring from the opening quote at p.
ParseString(s, p) ==
    LET q == Scan(s, p + 1, StringStop, TRUE)
    IN  IF At(s, q, "\"") THEN Value("string", q + 1) ELSE NoValue

\* NUMBER_RE: (-?(?:0|[1-9]\d*))(\.\d+)?
ParseNumber(s, p) ==
    LET i == IF At(s, p, "-") THEN p + 1 ELSE p
        e == IF At(s, i, "0") THEN i + 1 ELSE Scan(s, i, Digit, FALSE)
        f == Scan(s, e + 1, Digit, FALSE)
    IN  IF e = i THEN NoValue
        ELSE IF At(s, e, ".") /\ f > e + 1 THEN Value("number", f)
        ELSE Value("number", e)

RECURSIVE ParseValue(_, _), ParseElements(_, _), ParseMembers(_, _)

\* scan_once at p.
ParseValue(s, p) ==
    IF At(s, p, "\"") THEN ParseString(s, p)
    ELSE IF At(s, p, "[") THEN
        IF At(s, SkipWs(s, p + 1), "]") THEN Value("array", SkipWs(s, p + 1) + 1)
        ELSE ParseElements(s, SkipWs(s, p + 1))
    ELSE IF At(s, p, "{") THEN
        IF At(s, SkipWs(s, p + 1), "}") THEN Value("object", SkipWs(s, p + 1) + 1)
        ELSE ParseMembers(s, SkipWs(s, p + 1))
    ELSE IF At(s, p, "null") THEN Value("null", p + 4)
    ELSE IF At(s, p, "true") THEN Value("boolean", p + 4)
    ELSE IF At(s, p, "false") THEN Value("boolean", p + 5)
    ELSE ParseNumber(s, p)

\* JSONArray after the first element's position is known.
ParseElements(s, p) ==
    LET v == ParseValue(s, p)
        q == SkipWs(s, v.next)
    IN  IF ~v.ok THEN NoValue
        ELSE IF At(s, q, "]") THEN Value("array", q + 1)
        ELSE IF At(s, q, ",") THEN ParseElements(s, SkipWs(s, q + 1))
        ELSE NoValue

\* JSONObject after the first key's position is known.
ParseMembers(s, p) ==
    LET k == IF At(s, p, "\"") THEN ParseString(s, p) ELSE NoValue
        c == SkipWs(s, k.next)
        v == ParseValue(s, SkipWs(s, c + 1))
        q == SkipWs(s, v.next)
    IN  IF ~k.ok \/ ~At(s, c, ":") THEN NoValue
        ELSE IF ~v.ok THEN NoValue
        ELSE IF At(s, q, "}") THEN Value("object", q + 1)
        ELSE IF At(s, q, ",") THEN ParseMembers(s, SkipWs(s, q + 1))
        ELSE NoValue

\* json.loads(s): the kind of the value s denotes, "invalid" when it raises
\* JSONDecodeError (no value, or extra data after it).
json_loads(s) ==
    LET v == ParseValue(s, SkipWs(s, 1))
    IN  IF v.ok /\ SkipWs(s, v.next) = Len(s) + 1 THEN v.kind ELSE "invalid"

-----------------------------------------------------------------------------
(* process_images: constants and inputs                                    *)

DividerLen == 60        \* '='*60
FenceOpenLen == 7       \* raw_text[7:]
FenceCloseLen == 3      \* raw_text[:-3]
PreviewLen == 200       \* raw_text[:200]

BT == "^"               \* stands for U+0060
FenceOpen == BT \o BT \o BT \o "json"
FenceClose == BT \o BT \o BT

AllowedTypes == {"image/jpeg", "image/png", "application/pdf"}

\* The files a request may upload.
Uploads == {
    [filename |-> "a.jpg", content_type |-> "image/jpeg"],
    [filename |-> "b.png", content_type |-> "image/png"],
    [filename |-> "c.pdf", content_type |-> "application/pdf"],
    [filename |-> "d.txt", content_type |-> "text/plain"] }

\* The texts pytesseract.image_to_string may return.
OcrTexts == {"", " \n ", "Rs5"}

\* str(e) of an exception raised by a collaborator.
ExcMessages == {"boom"}

\* str(e) of the JSONDecodeError.
JsonErrorMessage == "Expecting value"

\* The texts the generative model may answer with.
ModelResponses == {
    "[]",
    "[{\"item_name\": \"Rice\", \"quantity\": 1, \"unit_price\": 50.0}]",
    FenceOpen \o "\n[1, 2]\n" \o FenceClose,
    "  " \o FenceOpen \o "[]" \o FenceClose \o "\n",
    FenceOpen \o "\n{\"a\": [1]}\n" \o FenceClose,
    FenceOpen \o "\n[1,\n" \o FenceClose,
    FenceOpen \o FenceClose,
    FenceOpen,
    FenceClose,
    FenceClose \o "\n[]\n" \o FenceClose,
    "[]\n" \o FenceClose,
    "{}",
    "{\"data\": []}",
    "7",
    "null",
    "\"Rice\"",
    "true",
    "Sorry, no items.",
    "[1, 2",
    "[] []",
    "",
    Rep("x", PreviewLen + 5) }

SeqsUpTo(S, n) == UNION {[1..k -> S] : k \in 0..n}

\* f"{n}" for a natural number n.
RECURSIVE Decimal(_)
Decimal(n) ==
    IF n < 10 THEN Char("0123456789", n + 1)
    ELSE Decimal(n \div 10) \o Char("0123456789", (n % 10) + 1)

Divider == Rep("=", DividerLen)

\* The header the loop appends before the try block.
StartBanner(n) ==
    "\n\n" \o Divider \o "\n"
        \o "BILL NUMBER " \o Decimal(n) \o " - START\n"
        \o Divider \o "\n\n"

\* The footer the try block appends as its last step.
EndBanner(n) ==
    "\n" \o Divider \o "\n"
        \o "BILL NUMBER " \o Decimal(n) \o " - END\n"
        \o Divider \o "\n\n"

\* max(texts, key=len) of [t1, t2, t3]: the first of the longest.
LongestText(t1, t2, t3) ==
    IF Len(t1) >= Len(t2) /\ Len(t1) >= Len(t3) THEN t1
    ELSE IF Len(t2) >= Len(t3) THEN t2
    ELSE t3

IsBlank(s) == Strip(s) = ""

NoData == [kind |-> "none", src |-> ""]
HttpError(code, detail) == [status |-> code, detail |-> detail, data |-> NoData]
Success(kind, src) == [status |-> 200, detail |-> "", data |-> [kind |-> kind, src |-> src]]
Pending == [status |-> 0, detail |-> "", data |-> NoData]

\* As NoFilesError, with a server-error status.
NoFilesErrorAsServerError == HttpError(500, "No files provided")
\* raise HTTPException(status_code=400, detail="No files provided")
NoFilesError == HttpError(400, "No files provided")
\* raise HTTPException(status_code=400, detail=f"Unsupported file type: {file.content_type}")
UnsupportedTypeError(f) == HttpError(400, "Unsupported file type: " \o f.content_type)
\* raise HTTPException(status_code=500,
\*     detail=f"Error processing file {file.filename}: {str(e)}")
ExtractionError(f, msg) ==
    HttpError(500, "Error processing file " \o f.filename \o ": " \o msg)
\* raise HTTPException(status_code=400, detail="No text extracted from images")
NoTextError == HttpError(400, "No text extracted from images")
\* raise HTTPException(status_code=500, detail=f"Error processing with Gemini: {str(e)}")
GeminiError(msg) == HttpError(500, "Error processing with Gemini: " \o msg)
\* raise HTTPException(status_code=500,
\*     detail=f"Invalid JSON from Gemini: {raw_text[:200]}... Error: {str(e)}")
InvalidJsonError(raw) ==
    HttpError(500, "Invalid JSON from Gemini: " \o Prefix(raw, PreviewLen)
                       \o "... Error: " \o JsonErrorMessage)

\* As StripOpenFence, cutting one character too few.
StripOpenFenceShort(raw) ==
    IF StartsWith(raw, FenceOpen) THEN SubSeq(raw, FenceOpenLen, Len(raw)) ELSE raw
\* if raw_text.startswith("```json"): raw_text = raw_text[7:]
StripOpenFence(raw) ==
    IF StartsWith(raw, FenceOpen) THEN SubSeq(raw, FenceOpenLen + 1, Len(raw)) ELSE raw
\* if raw_text.endswith("```"): raw_text = raw_text[:-3]
StripCloseFence(raw) ==
    IF EndsWith(raw, FenceClose) THEN SubSeq(raw, 1, Len(raw) - FenceCloseLen) ELSE raw
\* raw_text from response.text.strip() to the second raw_text.strip()
StripFences(resp) == Strip(StripCloseFence(StripOpenFence(Strip(resp))))

\* The try block around the model's answer, from response.text on.
ParseResponse(resp) ==
    LET raw == StripFences(resp)
        kind == json_loads(raw)
    IN  IF kind = "invalid" THEN InvalidJsonError(raw) ELSE Success(kind, raw)

-----------------------------------------------------------------------------
(* process_images: the handler, one request                                *)

CleanIdle == text = "" /\ cleaned = "" /\ recleaned = "" /\ cpc = "idle"

Init ==
    /\ files \in SeqsUpTo(Uploads, MaxFiles)
    /\ pc = "start"
    /\ idx = 0 /\ all_text = "" /\ bill_counter = 0 /\ pages = 0 /\ page = 0
    /\ cleaned_text = ""
    /\ result = Pending
    /\ ocr_calls = 0 /\ pdf_calls = 0 /\ open_calls = 0 /\ model_calls = 0
    /\ attempts = <<>> /\ extracted = <<>> /\ raised_at = 0
    /\ all_blank = TRUE /\ failed = FALSE /\ responses = <<>>
    /\ CleanIdle

file == files[idx]

\* The request ends with res (a return or a raise); the handler's locals are gone.
Finish(res) ==
    /\ pc' = "done"
    /\ result' = res
    /\ idx' = 0 /\ all_text' = "" /\ bill_counter' = 0 /\ pages' = 0 /\ page' = 0
    /\ cleaned_text' = ""

\* As ExtractionFails, had the except clause logged the error and gone on to the next file.
ExtractionSkips(msg) ==
    /\ pc' = "loop"
    /\ idx' = idx + 1
    /\ raised_at' = idx
    /\ failed' = TRUE
    /\ UNCHANGED <<result, all_text, bill_counter, pages, page, cleaned_text>>

\* except Exception as e: raise HTTPException(500, ...) around the extraction of `file`.
ExtractionFails(msg) ==
    /\ Finish(ExtractionError(file, msg))
    /\ raised_at' = idx
    /\ failed' = TRUE

\* if not files: raise ...; all_text = ""; bill_counter = 1
CheckFiles ==
    /\ pc = "start"
    /\ IF Len(files) = 0
       THEN /\ Finish(NoFilesError)
            /\ failed' = TRUE
       ELSE /\ pc' = "loop"
            /\ idx' = 1
            /\ all_text' = ""
            /\ bill_counter' = 1
            /\ UNCHANGED <<pages, page, cleaned_text, result, failed>>
    /\ UNCHANGED <<files, ocr_calls, pdf_calls, open_calls, model_calls, attempts,
                   extracted, raised_at, all_blank, responses, cvars>>

\* One turn of `for file in files` up to the try: the content-type check, the read
\* and the START banner.
NextFile ==
    /\ pc = "loop"
    /\ idx <= Len(files)
    /\ IF file.content_type \notin AllowedTypes
       THEN /\ Finish(UnsupportedTypeError(file))
            /\ failed' = TRUE
            /\ UNCHANGED attempts
       ELSE /\ all_text' = all_text \o StartBanner(bill_counter)
            /\ pc' = IF file.content_type = "application/pdf" THEN "convert" ELSE "open"
            /\ attempts' = Append(attempts, idx)
            /\ UNCHANGED <<idx, bill_counter, pages, page, cleaned_text, result, failed>>
    /\ UNCHANGED <<files, ocr_calls, pdf_calls, open_calls, model_calls,
                   extracted, raised_at, all_blank, responses, cvars>>

\* images = convert_from_bytes(contents)
ConvertPdf ==
    /\ pc = "convert"
    /\ pdf_calls' = pdf_calls + 1
    /\ \E n \in 0..MaxPages :
        /\ pages' = n
        /\ page' = 1
        /\ pc' = "pages"
    /\ UNCHANGED <<files, idx, all_text, bill_counter, cleaned_text, result, ocr_calls,
                   open_calls, model_calls, attempts, extracted, raised_at, all_blank,
                   failed, responses, cvars>>

\* convert_from_bytes raises
ConvertPdfRaises ==
    /\ pc = "convert"
    /\ pdf_calls' = pdf_calls + 1
    /\ \E msg \in ExcMessages : ExtractionFails(msg)
    /\ UNCHANGED <<files, ocr_calls, open_calls, model_calls, attempts, extracted,
                   all_blank, responses, cvars>>

\* One turn of `for i, image in enumerate(images)`.
OcrPage ==
    /\ pc = "pages"
    /\ page <= pages
    /\ ocr_calls' = ocr_calls + 1
    /\ \E t \in OcrTexts :
        /\ all_text' = all_text \o t \o "\n"
        /\ all_blank' = (all_blank /\ IsBlank(t))
    /\ page' = page + 1
    /\ UNCHANGED <<files, pc, idx, bill_counter, pages, cleaned_text, result, pdf_calls,
                   open_calls, model_calls, attempts, extracted, raised_at, failed,
                   responses, cvars>>

\* pytesseract.image_to_string(image) raises on a page
OcrPageRaises ==
    /\ pc = "pages"
    /\ page <= pages
    /\ ocr_calls' = ocr_calls + 1
    /\ \E msg \in ExcMessages : ExtractionFails(msg)
    /\ UNCHANGED <<files, pdf_calls, open_calls, model_calls, attempts, extracted,
                   all_blank, responses, cvars>>

\* The pages are exhausted: on to the END banner.
PagesDone ==
    /\ pc = "pages"
    /\ page > pages
    /\ pc' = "footer"
    /\ UNCHANGED <<files, idx, all_text, bill_counter, pages, page, cleaned_text, result,
                   ocr_calls, pdf_calls, open_calls, model_calls, attempts, extracted,
                   raised_at, all_blank, failed, responses, cvars>>

\* image = Image.open(io.BytesIO(contents))
OpenImage ==
    /\ pc = "open"
    /\ open_calls' = open_calls + 1
    /\ pc' = "ocr"
    /\ UNCHANGED <<files, idx, all_text, bill_counter, pages, page, cleaned_text, result,
                   ocr_calls, pdf_calls, model_calls, attempts, extracted, raised_at,
                   all_blank, failed, responses, cvars>>

\* Image.open raises
OpenImageRaises ==
    /\ pc = "open"
    /\ open_calls' = open_calls + 1
    /\ \E msg \in ExcMessages : ExtractionFails(msg)
    /\ UNCHANGED <<files, ocr_calls, pdf_calls, model_calls, attempts, extracted,
                   all_blank, responses, cvars>>

\* text1, text2, text3 = image_to_string(...) under the three configurations;
\* text = max(texts, key=len); all_text += text + "\n"
OcrImage ==
    /\ pc = "ocr"
    /\ ocr_calls' = ocr_calls + 3
    /\ \E t1, t2, t3 \in OcrTexts :
        /\ all_text' = all_text \o LongestText(t1, t2, t3) \o "\n"
        /\ all_blank' = (all_blank /\ IsBlank(LongestText(t1, t2, t3)))
    /\ pc' = "footer"
    /\ UNCHANGED <<files, idx, bill_counter, pages, page, cleaned_text, result, pdf_calls,
                   open_calls, model_calls, attempts, extracted, raised_at, failed,
                   responses, cvars>>

\* The n-th of the three image_to_string calls raises; the later ones are not made.
OcrImageRaises ==
    /\ pc = "ocr"
    /\ \E n \in 1..3 : ocr_calls' = ocr_calls + n
    /\ \E msg \in ExcMessages : ExtractionFails(msg)
    /\ UNCHANGED <<files, pdf_calls, open_calls, model_calls, attempts, extracted,
                   all_blank, responses, cvars>>

\* As Footer, without bill_counter += 1.
FooterNoIncrement ==
    /\ pc = "footer"
    /\ all_text' = all_text \o EndBanner(bill_counter)
    /\ extracted' = Append(extracted, idx)
    /\ idx' = idx + 1
    /\ pc' = "loop"
    /\ UNCHANGED <<files, bill_counter, pages, page, cleaned_text, result, ocr_calls,
                   pdf_calls, open_calls, model_calls, attempts, raised_at, all_blank,
                   failed, responses, cvars>>

\* The END banner and bill_counter += 1, the last steps of the try block.
Footer ==
    /\ pc = "footer"
    /\ all_text' = all_text \o EndBanner(bill_counter)
    /\ bill_counter' = bill_counter + 1
    /\ extracted' = Append(extracted, idx)
    /\ idx' = idx + 1
    /\ pc' = "loop"
    /\ UNCHANGED <<files, pages, page, cleaned_text, result, ocr_calls, pdf_calls,
                   open_calls, model_calls, attempts, raised_at, all_blank, failed,
                   responses, cvars>>

\* After the loop: the blank check, clean_ocr_text and the prompt.
AfterLoop ==
    /\ pc = "loop"
    /\ idx > Len(files)
    /\ IF Strip(all_text) = ""
       THEN /\ Finish(NoTextError)
            /\ failed' = TRUE
       ELSE /\ cleaned_text' = clean_ocr_text(all_text)
            /\ pc' = "gemini"
            /\ UNCHANGED <<idx, all_text, bill_counter, pages, page, result, failed>>
    /\ UNCHANGED <<files, ocr_calls, pdf_calls, open_calls, model_calls, attempts,
                   extracted, raised_at, all_blank, responses, cvars>>

\* response = model.generate_content(prompt), then the parse of response.text
GenerateContent ==
    /\ pc = "gemini"
    /\ model_calls' = model_calls + 1
    /\ \E r \in ModelResponses :
        LET res == ParseResponse(r) IN
        /\ responses' = Append(responses, r)
        /\ Finish(res)
        /\ failed' = (res.status # 200)
    /\ UNCHANGED <<files, ocr_calls, pdf_calls, open_calls, attempts, extracted,
                   raised_at, all_blank, cvars>>

\* As GenerateContentRaises, had the handler called the model once more after a failure.
GenerateContentRetries ==
    /\ pc = "gemini"
    /\ model_calls' = model_calls + 1
    /\ failed' = TRUE
    /\ IF model_calls = 0
       THEN UNCHANGED <<pc, result, idx, all_text, bill_counter, pages, page, cleaned_text>>
       ELSE \E msg \in ExcMessages : Finish(GeminiError(msg))
    /\ UNCHANGED <<files, ocr_calls, pdf_calls, open_calls, attempts, extracted,
                   raised_at, all_blank, responses, cvars>>

\* model.generate_content raises (or response.text does): except Exception
GenerateContentRaises ==
    /\ pc = "gemini"
    /\ model_calls' = model_calls + 1
    /\ \E msg \in ExcMessages : Finish(GeminiError(msg))
    /\ failed' = TRUE
    /\ UNCHANGED <<files, ocr_calls, pdf_calls, open_calls, attempts, extracted,
                   raised_at, all_blank, responses, cvars>>

Next ==
    \/ CheckFiles
    \/ NextFile
    \/ ConvertPdf
    \/ ConvertPdfRaises
    \/ OcrPage
    \/ OcrPageRaises
    \/ PagesDone
    \/ OpenImage
    \/ OpenImageRaises
    \/ OcrImage
    \/ OcrImageRaises
    \/ Footer
    \/ AfterLoop
    \/ GenerateContent
    \/ GenerateContentRaises

Spec == Init /\ [][Next]_vars

-----------------------------------------------------------------------------
(* clean_ocr_text on its own: applied to a text, then to its own result    *)

\* The characters the generated arguments are made of: the whitespace the two
\* regular expressions tell apart, and the letters of the replacement key "Amt:".
CleanAlphabet == {" ", "\t", "\n", "A", "m", "t", ":"}

\* "".join(cs[1..n]) for a sequence cs of characters.
RECURSIVE Join(_, _)
Join(cs, n) == IF n = 0 THEN "" ELSE Join(cs, n - 1) \o cs[n]

\* Longer arguments: every replacement key, the dividers, other whitespace.
CuratedTexts == {
    "Lable  Chola\n\n\n\nPhn: 12\t\tQty: 3\r\n",
    "+|bCAmt:+/2¢ 10.50\n \n \n\nCewkehy Srey",
    "LLablee AAmt:mt: PPhn:hn: SSreyrey",
    "\n\n" \o Divider \o "\nBILL NUMBER 1 - START\n" \o Divider \o "\n\n\n\n" \o Divider,
    "\f\n \r\n\t\nx \f \n\n",
    " \n\t\r\f " }

HandlerIdle ==
    /\ files = <<>> /\ pc = "idle"
    /\ idx = 0 /\ all_text = "" /\ bill_counter = 0 /\ pages = 0 /\ page = 0
    /\ cleaned_text = ""
    /\ result = Pending
    /\ ocr_calls = 0 /\ pdf_calls = 0 /\ open_calls = 0 /\ model_calls = 0
    /\ attempts = <<>> /\ extracted = <<>> /\ raised_at = 0
    /\ all_blank = TRUE /\ failed = FALSE /\ responses = <<>>

InitClean ==
    /\ \/ \E n \in 0..MaxLen : \E cs \in [1..n -> CleanAlphabet] : text = Join(cs, n)
       \/ text \in CuratedTexts
    /\ cleaned = "" /\ recleaned = ""
    /\ cpc = "ready"
    /\ HandlerIdle

\* cleaned = clean_ocr_text(text)
CleanOnce ==
    /\ cpc = "ready"
    /\ cleaned' = clean_ocr_text(text)
    /\ cpc' = "once"
    /\ UNCHANGED <<text, recleaned, hvars>>

\* recleaned = clean_ocr_text(cleaned)
CleanAgain ==
    /\ cpc = "once"
    /\ recleaned' = clean_ocr_text(cleaned)
    /\ cpc' = "twice"
    /\ UNCHANGED <<text, cleaned, hvars>>

NextClean == CleanOnce \/ CleanAgain

SpecClean == InitClean /\ [][NextClean]_vars

-----------------------------------------------------------------------------
(* Properties                                                              *)

Running == pc \in {"loop", "convert", "pages", "open", "ocr", "footer", "gemini"}
Done == pc = "done"
Upto(n) == [i \in 1..n |-> i]
AllAllowed == \A i \in 1..Len(files) : files[i].content_type \in AllowedTypes
Contains(s, sub) == Find(s, sub, 1) # 0
Occurrences(s, sub) ==
    {i \in 1..(Len(s) - Len(sub) + 1) : SubSeq(s, i, i + Len(sub) - 1) = sub}
StartLine(n) == "BILL NUMBER " \o Decimal(n) \o " - START\n"
EndLine(n) == "BILL NUMBER " \o Decimal(n) \o " - END\n"
\* The loop over the files has run to its end: every file was extracted.
LoopFinished == pc = "loop" /\ idx = Len(files) + 1

\* C1: a request whose file list holds a disallowed content type at any position
\* makes no OCR or PDF-conversion call at all, and (no collaborator having raised)
\* ends with a 400 error.
C1_RejectedBeforeAnyExtraction ==
    ~AllAllowed =>
        /\ ocr_calls = 0 /\ pdf_calls = 0
        /\ (Done /\ raised_at = 0) => result.status = 400

\* C2: when the extraction of the k-th file raises, the request ends with a 500
\* error whose detail names that file's filename, extraction was entered for the
\* files 1..k only, the generative model is not called and no data is returned.
C2_ExtractionFailureAborts ==
    raised_at # 0 =>
        /\ Done
        /\ result.status = 500
        /\ \E msg \in ExcMessages :
               result.detail = "Error processing file " \o files[raised_at].filename
                                   \o ": " \o msg
        /\ result.data = NoData
        /\ attempts = Upto(raised_at)
        /\ extracted = Upto(raised_at - 1)
        /\ model_calls = 0

C2_Witness == raised_at # 0 /\ raised_at < Len(files) /\ Done

\* C3: bill_counter is one more than the number of files whose extraction ran to
\* its end; and once all N files are extracted, all_text holds exactly N START and
\* N END banner lines, one of each for every index 1..N, START i before END i
\* before START i+1.
C3_BannersFrameEachFile ==
    /\ Running => bill_counter = Len(extracted) + 1
    /\ LoopFinished =>
        LET N == Len(files)
            banners == Occurrences(all_text, "BILL NUMBER ")
            starts(i) == {p \in banners : At(all_text, p, StartLine(i))}
            ends(i) == {p \in banners : At(all_text, p, EndLine(i))}
        IN  /\ Cardinality(banners) = 2 * N
            /\ \A i \in 1..N :
                /\ Cardinality(starts(i)) = 1
                /\ Cardinality(ends(i)) = 1
                /\ \A a \in starts(i) : \A b \in ends(i) :
                       /\ a < b
                       /\ i < N => \A c \in starts(i + 1) : b < c

C3_Witness == LoopFinished /\ Len(files) >= 2 /\ bill_counter = Len(files) + 1

\* C4: when every file was extracted and every extracted text is blank, the
\* generative model is not called and the request ends with the 400 error
\* "No text extracted from images".
C4_BlankTextRejected ==
    (Len(files) > 0 /\ Len(extracted) = Len(files) /\ all_blank) =>
        /\ model_calls = 0
        /\ Done => result = NoTextError

\* C5: a request with an empty file list ends at once with a 4xx error, with no
\* call of OCR, PDF conversion, Image.open or the generative model.
C5_EmptyListRejected ==
    (Len(files) = 0 /\ pc # "start") =>
        /\ Done
        /\ result.status \in 400..499
        /\ ocr_calls = 0 /\ pdf_calls = 0 /\ open_calls = 0 /\ model_calls = 0

C5_Witness == Len(files) = 0 /\ Done /\ result.status = 400

\* The state part of C6: a finished request is a success only if every file was
\* extracted and the model was called exactly once, otherwise an error without
\* data; and a failure ends the request.
C6_OutcomeOk ==
    /\ Done =>
        /\ result.status = 200 =>
            /\ ~failed
            /\ Len(files) > 0 /\ extracted = Upto(Len(files))
            /\ model_calls = 1
        /\ result.status # 200 =>
            /\ failed
            /\ result.status \in {400, 500}
            /\ result.data = NoData
    /\ failed => Done /\ result.status # 200

\* C6: a finished request is a success only if every file was extracted and the
\* model was called exactly once; otherwise it is an error without data; a failure
\* ends the request, and after it no OCR, conversion, Image.open or model call is
\* made.
C6_NoPartialNoRetry ==
    /\ []C6_OutcomeOk
    /\ [][failed => /\ ocr_calls' = ocr_calls
                    /\ pdf_calls' = pdf_calls
                    /\ open_calls' = open_calls
                    /\ model_calls' = model_calls]_vars

C6_Witness ==
    Done /\ result.status = 200 /\ Len(files) = 2 /\ model_calls = 1 /\ ocr_calls > 0

\* C7: an answer that begins with the json fence, ends with the closing fence and
\* holds valid JSON between them is returned as data, parsed from exactly the text
\* between the two fences; an answer whose text after fence stripping is not valid
\* JSON ends the request with a 500 error whose detail holds the first PreviewLen
\* characters of that text and no more of it.
C7_FencesStrippedOrPreviewed ==
    (Done /\ Len(responses) = 1) =>
        LET r == Strip(responses[1])
            interior == SubSeq(r, Len(FenceOpen) + 1, Len(r) - Len(FenceClose))
            raw == StripFences(responses[1])
        IN  /\ ( /\ StartsWith(r, FenceOpen) /\ EndsWith(r, FenceClose)
                 /\ Len(r) >= Len(FenceOpen) + Len(FenceClose)
                 /\ json_loads(interior) # "invalid" )
                    => result = Success(json_loads(interior), Strip(interior))
            /\ json_loads(raw) = "invalid" =>
                /\ result.status = 500
                /\ result.data = NoData
                /\ Contains(result.detail, Prefix(raw, PreviewLen) \o "... Error: ")
                /\ Len(raw) > PreviewLen =>
                       ~Contains(result.detail, Prefix(raw, PreviewLen + 1))

C7_Witness ==
    /\ Done /\ Len(responses) = 1
    /\ StartsWith(responses[1], FenceOpen) /\ EndsWith(responses[1], FenceClose)
    /\ result.status = 200 /\ result.data.src = "[1, 2]"

\* C8: clean_ocr_text(clean_ocr_text(t)) = clean_ocr_text(t).
C8_CleanIdempotent == cpc = "twice" => recleaned = cleaned

C8_Witness ==
    /\ cpc = "twice"
    /\ Contains(text, "Qty:") /\ Contains(text, "\t\t") /\ Contains(text, "\n\n\n")
    /\ Contains(cleaned, "Quantity:")
    /\ ~Contains(cleaned, "\t") /\ ~Contains(cleaned, "\n\n\n")
    /\ recleaned = cleaned

\* C9 as stated: for a non-empty list of allowed files, extraction is attempted
\* for each file of the list, in upload order.
C9_EveryFileAttempted ==
    (Done /\ Len(files) > 0 /\ AllAllowed) => attempts = Upto(Len(files))

\* C9 amended: for a non-empty list of allowed files, extraction is attempted in
\* upload order, each file only after the one before it was extracted, up to and
\* including the first file whose extraction raises, and for every file of the
\* list when none raises.
C9_AttemptedInOrderUntilFailure ==
    (Len(files) > 0 /\ AllAllowed) =>
        /\ attempts = Upto(Len(attempts))
        /\ extracted = Upto(Len(extracted))
        /\ Len(attempts) - Len(extracted) \in {0, 1}
        /\ Done => Len(attempts) = (IF raised_at = 0 THEN Len(files) ELSE raised_at)

C9_Witness ==
    Done /\ AllAllowed /\ raised_at = 0 /\ attempts = <<1, 2>> /\ extracted = <<1, 2>>

\* C10: the data of a success response is a JSON array.
C10_DataIsArray == (Done /\ result.status = 200) => result.data.kind = "array"

====
